---- MODULE Spec2Model ----
(***************************************************************************)
(* Model of the asynchronous query pool of fastcgi++ (sql.hpp):            *)
(* Fastcgipp::Sql::Connection / ConnectionPar<T> (start, terminate,        *)
(* intHandler, queue) with its three mutexes and two condition variables.  *)
(*                                                                         *)
(* The threads that run intHandler are anonymous in the code, so the model *)
(* keeps them as a bag of local states (position, local Query, local       *)
(* Message, what execute did).                                             *)
(***************************************************************************)
EXTENDS Integers, Sequences, FiniteSets, Bags, TLC

(* ---------------------------------------------------------------- bounds *)
\* number of threads the process can give to intHandler
MaxSpawn == 3
\* number of queue() calls made over the connection's life
MaxItems == 2
\* number of manufacture() calls made on the result container
MaxRows == 3

(* ------------------------------------------------ configuration / inputs *)
\* Connection::maxThreads, set by the constructor
maxThreads == 2
\* Connection::typeVal, set by the constructor
typeVal == 7

\* owner of a boost::mutex: nobody, the thread that calls start() and
\* terminate(), an intHandler thread
Free == "free"
Main == "main"
Handler == "handler"

Items == 1..MaxItems

\* terminating character of a C string
NUL == "\\0"
\* descriptions e.what() may return (non-empty texts)
Whats == { <<"x">>, <<"k", "e", "y">> }
\* what Statement::execute may do: return, throw a std::exception with a
\* description, or throw something that is not a std::exception
Outcomes == { [kind |-> "ok", what |-> <<>>] }
            \cup { [kind |-> "std", what |-> d] : d \in Whats }
            \cup { [kind |-> "other", what |-> <<>>] }
NoOutcome == [kind |-> "none", what |-> <<>>]

\* values of the type T wrapped by Nullable<T>
Objects == { 0, 1, 2 }
\* no Nullable<T> has been constructed yet
NoNullable == [ctor |-> "none", nullness |-> FALSE, object |-> 0]

VARIABLES
  threads,        \* Connection::threads
  terminateBool,  \* Connection::terminateBool
  queries,        \* ConnectionPar::queries, the std::queue part (item ids)
  threadsMutex,   \* owner of Connection::threadsMutex
  terminateMutex, \* owner of Connection::terminateMutex
  queriesMutex,   \* owner of the boost::mutex part of ConnectionPar::queries
  handlers,       \* bag of the local states of the intHandler threads
  ctl,            \* position of the thread calling start()/terminate()
  queued,         \* number of queue() calls so far
  executed,       \* number of execute calls per item
  called,         \* messages each item's callback has been invoked with
  aborted,        \* the process was ended by std::terminate
  data,           \* SetContainerPar::data of one result container
  made,           \* number of Set objects manufacture() has created for it
  nullable        \* one Nullable<T> object (or none yet)

\* the Connection and its threads
poolVars == << threads, terminateBool, queries, threadsMutex, terminateMutex,
               queriesMutex, handlers, ctl, queued, executed, called, aborted >>

\* the data classes, which the Connection only hands through to the
\* statement (Query::results, Query::parameters)
dataVars == << data, made, nullable >>

vars == << poolVars, dataVars >>

(* ------------------------------------------------------- pure functions *)
\* the character buffer e.what() points to
CStr(d) == d \o << NUL >>

\* std::strlen on the buffer starting at (1-based) position from
RECURSIVE strlen(_, _)
strlen(buf, from) ==
  IF from > Len(buf) \/ buf[from] = NUL THEN 0 ELSE 1 + strlen(buf, from + 1)

\* std::memcpy of the first n characters of buf into a fresh array
memcpy(buf, n) == SubSeq(buf, 1, n)

\* Message message; message.type=typeVal; message.size=0;
EmptyMessage == [type |-> typeVal, size |-> 0, data |-> <<>>]

\* body of catch(std::exception& e)
CatchMessage(d) ==
  LET size == strlen(CStr(d), 2)
  IN  [type |-> typeVal, size |-> size, data |-> memcpy(CStr(d), size)]

(* ------------------------------------------------- intHandler threads *)
\* local state of an intHandler thread at position p that holds no Query
At(p) == [pc |-> p, query |-> 0, message |-> EmptyMessage, raised |-> NoOutcome]

\* the local states some intHandler thread is in
Handlers == BagToSet(handlers)

\* n threads in local state h
Copies(h, n) == IF n = 0 THEN EmptyBag ELSE [x \in {h} |-> n]

\* one thread goes from local state h to local state g
Step(h, g) == (handlers (-) SetToBag({h})) (+) SetToBag({g})

\* number of intHandler threads blocked in wakeUp.wait(queriesLock)
WakeUpWaiters == CopiesIn(At("waiting"), handlers)

\* line 630: where wakeUp.wait goes on once notified: it has to lock the
\* queue's mutex again before it returns
Woken == "relock"

\* wakeUp.notify_one()
NotifyOne ==
  IF WakeUpWaiters = 0 THEN handlers ELSE Step(At("waiting"), At(Woken))

\* wakeUp.notify_all()
NotifyAll ==
  (handlers (-) Copies(At("waiting"), WakeUpWaiters))
     (+) Copies(At(Woken), WakeUpWaiters)

\* threadsChanged.notify_one(): the only possible waiter is the main thread
NotifyThreadsChanged(c) ==
  CASE c = "startWait" -> "startReacq"
    [] c = "termWait"  -> "termReacq"
    [] OTHER           -> c

\* positions of the calling thread outside start() and terminate():
\* after construction, after start() returned, after terminate() returned,
\* after start() was left by boost::thread's exception
IdlePhases == { "created", "started", "terminated", "startFailed" }

(* ----------------------------------------------------------------- Init *)
Init ==
  /\ threads = 0
  /\ terminateBool \in BOOLEAN    \* not initialised by the constructor
  /\ queries = <<>>
  /\ threadsMutex = Free
  /\ terminateMutex = Free
  /\ queriesMutex = Free
  /\ handlers = EmptyBag
  /\ ctl = "created"
  /\ queued = 0
  /\ executed = [i \in Items |-> 0]
  /\ called = [i \in Items |-> <<>>]
  /\ aborted = FALSE
  /\ data = <<>>
  /\ made = 0
  /\ nullable = NoNullable

(* ------------------------------------------------------------- start() *)
\* lines 583-586: { lock_guard terminateLock; terminateBool=false; }
StartClearFlag ==
  /\ ~aborted
  /\ ctl \in IdlePhases
  /\ terminateMutex = Free
  /\ terminateBool' = FALSE
  /\ ctl' = "startLock"
  /\ UNCHANGED << threads, queries, threadsMutex, terminateMutex, queriesMutex,
                  handlers, queued, executed, called, aborted >>
  /\ UNCHANGED dataVars

\* line 588: unique_lock threadsLock(threadsMutex)
StartLock ==
  /\ ~aborted
  /\ ctl = "startLock"
  /\ threadsMutex = Free
  /\ threadsMutex' = Main
  /\ ctl' = "startLoop"
  /\ UNCHANGED << threads, terminateBool, queries, terminateMutex, queriesMutex,
                  handlers, queued, executed, called, aborted >>
  /\ UNCHANGED dataVars

\* mutant of StartMustSpawn: start() wants one thread more than maxThreads
StartMustSpawnAtSize(n) == n <= maxThreads

\* the condition of while(threads<maxThreads) at line 589
StartMustSpawn(n) == n < maxThreads

\* lines 589-592: threads<maxThreads: create a thread running intHandler and
\* wait on threadsChanged (which releases threadsMutex)
StartSpawn ==
  /\ ~aborted
  /\ ctl = "startLoop"
  /\ StartMustSpawn(threads)
  /\ BagCardinality(handlers) < MaxSpawn
  /\ handlers' = handlers (+) SetToBag({ At("spawned") })
  /\ threadsMutex' = Free
  /\ ctl' = "startWait"
  /\ UNCHANGED << threads, terminateBool, queries, terminateMutex, queriesMutex,
                  queued, executed, called, aborted >>
  /\ UNCHANGED dataVars

\* line 591: no thread can be created (the process is at its limit of
\* MaxSpawn threads): boost::thread throws, threadsLock's destructor unlocks
\* threadsMutex and the exception leaves start()
StartSpawnFails ==
  /\ ~aborted
  /\ ctl = "startLoop"
  /\ StartMustSpawn(threads)
  /\ BagCardinality(handlers) >= MaxSpawn
  /\ threadsMutex' = Free
  /\ ctl' = "startFailed"
  /\ UNCHANGED << threads, terminateBool, queries, terminateMutex, queriesMutex,
                  handlers, queued, executed, called, aborted >>
  /\ UNCHANGED dataVars

\* lines 589, 594: the loop condition is false, start() returns
StartReturn ==
  /\ ~aborted
  /\ ctl = "startLoop"
  /\ ~StartMustSpawn(threads)
  /\ threadsMutex' = Free
  /\ ctl' = "started"
  /\ UNCHANGED << threads, terminateBool, queries, terminateMutex, queriesMutex,
                  handlers, queued, executed, called, aborted >>
  /\ UNCHANGED dataVars

\* line 592: threadsChanged.wait returns once threadsMutex is held again
StartReacquire ==
  /\ ~aborted
  /\ ctl = "startReacq"
  /\ threadsMutex = Free
  /\ threadsMutex' = Main
  /\ ctl' = "startLoop"
  /\ UNCHANGED << threads, terminateBool, queries, terminateMutex, queriesMutex,
                  handlers, queued, executed, called, aborted >>
  /\ UNCHANGED dataVars

(* --------------------------------------------------------- terminate() *)
\* lines 598-601: { lock_guard terminateLock; terminateBool=true; }
\* (terminate() is called on a pool that start() has brought up)
TerminateSetFlag ==
  /\ ~aborted
  /\ ctl = "started"
  /\ terminateMutex = Free
  /\ terminateBool' = TRUE
  /\ ctl' = "termNotify"
  /\ UNCHANGED << threads, queries, threadsMutex, terminateMutex, queriesMutex,
                  handlers, queued, executed, called, aborted >>
  /\ UNCHANGED dataVars

\* line 602: wakeUp.notify_all()
TerminateNotifyAll ==
  /\ ~aborted
  /\ ctl = "termNotify"
  /\ handlers' = NotifyAll
  /\ ctl' = "termLock"
  /\ UNCHANGED << threads, terminateBool, queries, threadsMutex, terminateMutex,
                  queriesMutex, queued, executed, called, aborted >>
  /\ UNCHANGED dataVars

\* line 604: unique_lock threadsLock(threadsMutex)
TerminateLock ==
  /\ ~aborted
  /\ ctl = "termLock"
  /\ threadsMutex = Free
  /\ threadsMutex' = Main
  /\ ctl' = "termLoop"
  /\ UNCHANGED << threads, terminateBool, queries, terminateMutex, queriesMutex,
                  handlers, queued, executed, called, aborted >>
  /\ UNCHANGED dataVars

\* mutant of TerminateMustWait: terminate() stops waiting while one thread
\* is still counted
TerminateMustWaitForMany(n) == n > 1

\* the condition of while(threads) at line 605
TerminateMustWait(n) == n # 0

\* lines 605-606: threads is not 0: wait on threadsChanged
TerminateWait ==
  /\ ~aborted
  /\ ctl = "termLoop"
  /\ TerminateMustWait(threads)
  /\ threadsMutex' = Free
  /\ ctl' = "termWait"
  /\ UNCHANGED << threads, terminateBool, queries, terminateMutex, queriesMutex,
                  handlers, queued, executed, called, aborted >>
  /\ UNCHANGED dataVars

\* lines 605, 607: threads is 0, terminate() returns
TerminateReturn ==
  /\ ~aborted
  /\ ctl = "termLoop"
  /\ ~TerminateMustWait(threads)
  /\ threadsMutex' = Free
  /\ ctl' = "terminated"
  /\ UNCHANGED << threads, terminateBool, queries, terminateMutex, queriesMutex,
                  handlers, queued, executed, called, aborted >>
  /\ UNCHANGED dataVars

\* line 606: threadsChanged.wait returns once threadsMutex is held again
TerminateReacquire ==
  /\ ~aborted
  /\ ctl = "termReacq"
  /\ threadsMutex = Free
  /\ threadsMutex' = Main
  /\ ctl' = "termLoop"
  /\ UNCHANGED << threads, terminateBool, queries, terminateMutex, queriesMutex,
                  handlers, queued, executed, called, aborted >>
  /\ UNCHANGED dataVars

(* --------------------------------------------------------- intHandler() *)
\* lines 611-614: { lock_guard threadsLock(threadsMutex); ++threads; }
HandlerIncrement(h) ==
  /\ ~aborted
  /\ h.pc = "spawned"
  /\ threadsMutex = Free
  /\ threads' = threads + 1
  /\ handlers' = Step(h, [h EXCEPT !.pc = "notifyUp"])
  /\ UNCHANGED << terminateBool, queries, threadsMutex, terminateMutex,
                  queriesMutex, ctl, queued, executed, called, aborted >>
  /\ UNCHANGED dataVars

\* line 615: threadsChanged.notify_one()
HandlerNotifyUp(h) ==
  /\ ~aborted
  /\ h.pc = "notifyUp"
  /\ ctl' = NotifyThreadsChanged(ctl)
  /\ handlers' = Step(h, [h EXCEPT !.pc = "loop"])
  /\ UNCHANGED << threads, terminateBool, queries, threadsMutex,
                  terminateMutex, queriesMutex, queued, executed, called,
                  aborted >>
  /\ UNCHANGED dataVars

\* mutant of LockTerminate: the thread goes on without locking the mutex
LockTerminateSkipped == Free

\* line 622: the owner of terminateMutex after terminateLock.lock()
LockTerminate == Handler

\* line 622: terminateLock.lock()
HandlerLockTerminate(h) ==
  /\ ~aborted
  /\ h.pc = "loop"
  /\ terminateMutex = Free
  /\ terminateMutex' = LockTerminate
  /\ handlers' = Step(h, [h EXCEPT !.pc = "check"])
  /\ UNCHANGED << threads, terminateBool, queries, threadsMutex, queriesMutex,
                  ctl, queued, executed, called, aborted >>
  /\ UNCHANGED dataVars

\* lines 623-624: if(terminateBool) break;
\* the loop is left with terminateMutex still locked
HandlerBreak(h) ==
  /\ ~aborted
  /\ h.pc = "check"
  /\ terminateBool
  /\ handlers' = Step(h, [h EXCEPT !.pc = "leave"])
  /\ UNCHANGED << threads, terminateBool, queries, threadsMutex,
                  terminateMutex, queriesMutex, ctl, queued, executed, called,
                  aborted >>
  /\ UNCHANGED dataVars

\* lines 623-625: the flag is not set; terminateLock.unlock()
HandlerContinue(h) ==
  /\ ~aborted
  /\ h.pc = "check"
  /\ ~terminateBool
  /\ terminateMutex' = Free
  /\ handlers' = Step(h, [h EXCEPT !.pc = "lockQueries"])
  /\ UNCHANGED << threads, terminateBool, queries, threadsMutex, queriesMutex,
                  ctl, queued, executed, called, aborted >>
  /\ UNCHANGED dataVars

\* line 627: queriesLock.lock()
HandlerLockQueries(h) ==
  /\ ~aborted
  /\ h.pc = "lockQueries"
  /\ queriesMutex = Free
  /\ queriesMutex' = Handler
  /\ handlers' = Step(h, [h EXCEPT !.pc = "size"])
  /\ UNCHANGED << threads, terminateBool, queries, threadsMutex,
                  terminateMutex, ctl, queued, executed, called, aborted >>
  /\ UNCHANGED dataVars

\* lines 628-630: the queue is empty: wakeUp.wait(queriesLock), which
\* releases the queue's mutex and blocks
HandlerWait(h) ==
  /\ ~aborted
  /\ h.pc = "size"
  /\ Len(queries) = 0
  /\ queriesMutex' = Free
  /\ handlers' = Step(h, [h EXCEPT !.pc = "waiting"])
  /\ UNCHANGED << threads, terminateBool, queries, threadsMutex,
                  terminateMutex, ctl, queued, executed, called, aborted >>
  /\ UNCHANGED dataVars

\* lines 630-632: wakeUp.wait returns with the queue's mutex locked again;
\* queriesLock.unlock(); continue;
HandlerWakeUp(h) ==
  /\ ~aborted
  /\ h.pc = "relock"
  /\ queriesMutex = Free
  /\ handlers' = Step(h, [h EXCEPT !.pc = "loop"])
  /\ UNCHANGED << threads, terminateBool, queries, threadsMutex,
                  terminateMutex, queriesMutex, ctl, queued, executed, called,
                  aborted >>
  /\ UNCHANGED dataVars

\* mutant of Front: the newest item is taken instead of the oldest
FrontIsBack(q) == q[Len(q)]

\* line 635: queries.front()
Front(q) == Head(q)

\* mutant of Pop: the item taken stays in the queue
PopNothing(q) == q

\* line 636: queries.pop()
Pop(q) == Tail(q)

\* mutant of UnlockAfterPop: the queue's mutex stays locked after the pop
KeepLockAfterPop == Handler

\* line 637: queriesLock.unlock()
UnlockAfterPop == Free

\* lines 628, 635-641: the queue is not empty:
\* Query query(queries.front()); queries.pop(); queriesLock.unlock();
\* Message message; message.type=typeVal; message.size=0;
HandlerDequeue(h) ==
  /\ ~aborted
  /\ h.pc = "size"
  /\ Len(queries) # 0
  /\ queries' = Pop(queries)
  /\ queriesMutex' = UnlockAfterPop
  /\ handlers' = Step(h, [h EXCEPT !.pc = "execute", !.query = Front(queries),
                                   !.message = EmptyMessage])
  /\ UNCHANGED << threads, terminateBool, threadsMutex, terminateMutex, ctl,
                  queued, executed, called, aborted >>
  /\ UNCHANGED dataVars

\* mutant of AfterTry: the iteration ends without the callback
AfterTrySkipsCallback == "loop"

\* line 654: the statement that follows the try block
AfterTry == "callback"

\* lines 643-652: try { statement->execute(...) } catch(std::exception& e)
\* { size=strlen(e.what()+1); data.reset(new char[size]); memcpy(...) };
\* anything else thrown leaves the thread function: std::terminate
HandlerExecute(h) ==
  /\ ~aborted
  /\ h.pc = "execute"
  /\ executed' = [executed EXCEPT ![h.query] = @ + 1]
  /\ \E o \in Outcomes :
       CASE o.kind = "ok" ->
              /\ handlers' = Step(h, [h EXCEPT !.pc = AfterTry, !.raised = o])
              /\ UNCHANGED aborted
         [] o.kind = "std" ->
              /\ handlers' = Step(h, [h EXCEPT !.pc = AfterTry, !.raised = o,
                                               !.message = CatchMessage(o.what)])
              /\ UNCHANGED aborted
         [] OTHER ->
              /\ handlers' = Step(h, [h EXCEPT !.raised = o])
              /\ aborted' = TRUE
  /\ UNCHANGED << threads, terminateBool, queries, threadsMutex,
                  terminateMutex, queriesMutex, ctl, queued, called >>
  /\ UNCHANGED dataVars

\* line 654: query.callback(message); the Query and the Message die at the
\* end of the iteration
HandlerCallback(h) ==
  /\ ~aborted
  /\ h.pc = "callback"
  /\ called' = [called EXCEPT ![h.query] = Append(@, h.message)]
  /\ handlers' = Step(h, At("loop"))
  /\ UNCHANGED << threads, terminateBool, queries, threadsMutex,
                  terminateMutex, queriesMutex, ctl, queued, executed,
                  aborted >>
  /\ UNCHANGED dataVars

\* mutant of Decrement: the counter is reset instead of decremented
DecrementToZero(n) == 0

\* line 659: --threads
Decrement(n) == n - 1

\* lines 657-660: { lock_guard threadsLock(threadsMutex); --threads; }
\* entered with terminateMutex still held
HandlerDecrement(h) ==
  /\ ~aborted
  /\ h.pc = "leave"
  /\ threadsMutex = Free
  /\ threads' = Decrement(threads)
  /\ handlers' = Step(h, [h EXCEPT !.pc = "notifyDown"])
  /\ UNCHANGED << terminateBool, queries, threadsMutex, terminateMutex,
                  queriesMutex, ctl, queued, executed, called, aborted >>
  /\ UNCHANGED dataVars

\* mutant of UnlockAtExit: the thread ends with terminateMutex locked
KeepLockAtExit == Handler

\* line 662: terminateLock's destructor at the end of intHandler
UnlockAtExit == Free

\* lines 661-662: threadsChanged.notify_one(); the function returns,
\* terminateLock's destructor unlocks terminateMutex and the thread ends
HandlerExit(h) ==
  /\ ~aborted
  /\ h.pc = "notifyDown"
  /\ ctl' = NotifyThreadsChanged(ctl)
  /\ terminateMutex' = UnlockAtExit
  /\ handlers' = handlers (-) SetToBag({h})
  /\ UNCHANGED << threads, terminateBool, queries, threadsMutex, queriesMutex,
                  queued, executed, called, aborted >>
  /\ UNCHANGED dataVars

(* -------------------------------------------------------------- queue() *)
\* mutant of Push: the new item goes to the head of the queue
PushFront(q, i) == << i >> \o q

\* lines 667-675: queries.push(Query()); fill queries.back()
Push(q, i) == Append(q, i)

\* lines 666-677: lock_guard queriesLock(queries); queries.push(Query());
\* fill queries.back(); wakeUp.notify_one()   (the whole body holds the lock)
Queue ==
  /\ ~aborted
  /\ queued < MaxItems
  /\ queriesMutex = Free
  /\ queued' = queued + 1
  /\ queries' = Push(queries, queued + 1)
  /\ handlers' = NotifyOne
  /\ UNCHANGED << threads, terminateBool, threadsMutex, terminateMutex,
                  queriesMutex, ctl, executed, called, aborted >>
  /\ UNCHANGED dataVars

(* --------------------------------------------------- condition variables *)
\* boost::condition_variable::wait may return without a notification
\* (line 630, wakeUp)
SpuriousWakeUp ==
  /\ ~aborted
  /\ WakeUpWaiters > 0
  /\ handlers' = Step(At("waiting"), At(Woken))
  /\ UNCHANGED << threads, terminateBool, queries, threadsMutex,
                  terminateMutex, queriesMutex, ctl, queued, executed, called,
                  aborted >>
  /\ UNCHANGED dataVars

\* the same for the waits on threadsChanged (lines 592 and 606)
SpuriousThreadsChanged ==
  /\ ~aborted
  /\ ctl \in { "startWait", "termWait" }
  /\ ctl' = NotifyThreadsChanged(ctl)
  /\ UNCHANGED << threads, terminateBool, queries, threadsMutex,
                  terminateMutex, queriesMutex, handlers, queued, executed,
                  called, aborted >>
  /\ UNCHANGED dataVars

(* ------------------------------------------- SetContainer and Nullable *)
\* std::list::push_back
push_back(d, e) == Append(d, e)

\* mutant of EraseLast: the oldest element is erased
EraseFirst(d) == Tail(d)

\* line 352: data.erase(--data.end())
EraseLast(d) == SubSeq(d, 1, Len(d) - 1)

\* lines 354-355: size() and empty()
size(d) == Len(d)
empty(d) == Len(d) = 0

\* lines 409-412: begin() and end() as positions in the list
begin(d) == 1
end(d) == Len(d) + 1

\* the elements met by an iterator going from it to end() with operator++
\* and operator* (lines 378-382)
RECURSIVE Walk(_, _)
Walk(d, it) == IF it = end(d) THEN <<>> ELSE << d[it] >> \o Walk(d, it + 1)

\* line 422: manufacture(): data.push_back(shared_ptr<Set>(new T))
Manufacture ==
  /\ made < MaxRows
  /\ made' = made + 1
  /\ data' = push_back(data, made + 1)
  /\ UNCHANGED nullable
  /\ UNCHANGED poolVars

\* line 352: trim(), called on a container that is not empty
Trim ==
  /\ ~empty(data)
  /\ data' = EraseLast(data)
  /\ UNCHANGED << made, nullable >>
  /\ UNCHANGED poolVars

\* line 130: Nullable(): NullablePar(false) {}  (object is not initialised)
NullableDefault ==
  /\ \E v \in Objects :
       nullable' = [ctor |-> "default", nullness |-> FALSE, object |-> v]
  /\ UNCHANGED << data, made >>
  /\ UNCHANGED poolVars

\* line 131: Nullable(const T& x): NullablePar(false), object(x) { }
NullableFrom(x) ==
  /\ nullable' = [ctor |-> "value", nullness |-> FALSE, object |-> x]
  /\ UNCHANGED << data, made >>
  /\ UNCHANGED poolVars

(* -------------------------------------------------------- specification *)
HandlerStep(h) ==
  /\ BagIn(h, handlers)
  /\ \/ HandlerIncrement(h)
     \/ HandlerNotifyUp(h)
     \/ HandlerLockTerminate(h)
     \/ HandlerBreak(h)
     \/ HandlerContinue(h)
     \/ HandlerLockQueries(h)
     \/ HandlerWait(h)
     \/ HandlerWakeUp(h)
     \/ HandlerDequeue(h)
     \/ HandlerExecute(h)
     \/ HandlerCallback(h)
     \/ HandlerDecrement(h)
     \/ HandlerExit(h)

StartStep ==
  \/ StartLock
  \/ StartSpawn
  \/ StartSpawnFails
  \/ StartReturn
  \/ StartReacquire

TerminateStep ==
  \/ TerminateNotifyAll
  \/ TerminateLock
  \/ TerminateWait
  \/ TerminateReturn
  \/ TerminateReacquire

Next ==
  \/ StartClearFlag
  \/ StartStep
  \/ TerminateSetFlag
  \/ TerminateStep
  \/ \E h \in Handlers : HandlerStep(h)
  \/ Queue
  \/ SpuriousWakeUp
  \/ SpuriousThreadsChanged

Spec == Init /\ [][Next]_vars

\* the positions of intHandler from which a thread takes a step
Positions == { "spawned", "notifyUp", "loop", "check", "lockQueries", "size",
               "relock", "execute", "callback", "leave", "notifyDown" }

\* the positions at which intHandler locks a mutex
Locking == { "spawned", "loop", "lockQueries", "relock", "leave" }

\* a step of some intHandler thread that is at position p
HandlerAt(p) == \E h \in Handlers : h.pc = p /\ HandlerStep(h)

\* Scheduling: every thread that can take a step of start(), terminate() or
\* intHandler() eventually takes it.  An intHandler thread that needs a mutex
\* obtains it if the mutex is free again and again (strong fairness); the
\* thread in start() or terminate() competes for threadsMutex with threads
\* that each lock it twice in their life, so weak fairness says the same for
\* it.  Threads at the same position are interchangeable (those that hold an
\* item pass that position once per item).  Calls of start(), terminate() and
\* queue() are up to the program's users, and a wait on a condition variable
\* is not obliged to return spuriously.
FairSpec ==
  /\ Spec
  /\ WF_vars(StartStep)
  /\ WF_vars(TerminateStep)
  /\ \A p \in Locking : SF_vars(HandlerAt(p))
  /\ \A p \in Positions \ Locking : WF_vars(HandlerAt(p))

DataNext ==
  \/ Manufacture
  \/ Trim
  \/ NullableDefault
  \/ \E x \in Objects : NullableFrom(x)

\* the data classes on their own
DataSpec == Init /\ [][DataNext]_vars

(* ------------------------------------------------------- state functions *)
\* the items in the queue
Range(q) == { q[k] : k \in 1..Len(q) }
InQueue(i) == i \in Range(queries)

\* item i has been taken from the queue by an intHandler thread
Dequeued(i) == (\E h \in Handlers : h.query = i) \/ executed[i] > 0

\* intHandler threads between ++threads and --threads
Counted == { "notifyUp", "loop", "check", "lockQueries", "size", "waiting",
             "relock", "execute", "callback", "leave" }
LiveWorkers == { h \in Handlers : h.pc \in Counted }

\* the number of intHandler threads that exist
Alive == BagCardinality(handlers)

\* the calling thread is inside terminate()
InTerminate ==
  ctl \in { "termNotify", "termLock", "termLoop", "termWait", "termReacq" }

\* the calling thread has not called terminate() since the pool was started
Running == ctl = "started"

\* the step in which terminate() returns
TerminateReturns == ctl = "termLoop" /\ ctl' = "terminated"

\* terminate() is about to return: it holds threadsMutex and reads threads = 0
AboutToReturn == ctl = "termLoop" /\ threads = 0

\* an intHandler thread in local state h is about to pass its message to the
\* callback
AtCallback(h) == h.pc = "callback"

(* ================================================================ claims *)

\* C1: whenever terminate() is called and every execute and callback
\* returns, terminate() eventually returns (no intHandler thread stays in
\* wakeUp.wait for ever).
C1_TerminateReturns == InTerminate ~> (ctl = "terminated" \/ aborted)

\* C2 (as stated): the callback of every item enqueued before terminate() is
\* called on a started pool has been invoked when terminate() has returned.
C2_AllCallbacksFired ==
  \A i \in Items :
    [](( Running /\ i <= queued ) => []( ctl = "terminated" => called[i] # <<>> ))

\* C2 (amended): when terminate() returns, the callback of every item that
\* an intHandler thread has taken from the queue has been invoked exactly
\* once, and no callback of an item still in the queue has been invoked.
C2_DequeuedFired ==
  [][ TerminateReturns =>
        \A i \in 1..queued : IF InQueue(i) THEN called[i] = <<>>
                                           ELSE Len(called[i]) = 1 ]_vars

\* C2 witness: terminate() has returned on a pool that completed one item and
\* left another one in the queue.
C2_Witness ==
  /\ ctl = "terminated"
  /\ \E i \in 1..queued : Len(called[i]) = 1
  /\ \E j \in 1..queued : InQueue(j) /\ called[j] = <<>>

\* C3 (as stated): an item that is in the queue when terminate() returns is
\* never executed and its callback is never invoked afterwards.
C3_DroppedForever ==
  \A i \in Items :
    [](( AboutToReturn /\ InQueue(i) ) => []( executed[i] = 0 /\ called[i] = <<>> ))

\* C3 (amended): from the return of terminate() until start() is called
\* again, every item in the queue stays in the queue, is not executed and
\* its callback is not invoked (a later start() lets the workers take it).
C3_KeptUntilStart ==
  [][ ctl = "terminated" =>
        \A i \in Items :
          InQueue(i) => /\ i \in { queries'[k] : k \in 1..Len(queries') }
                        /\ executed'[i] = 0
                        /\ called'[i] = <<>> ]_vars

\* C3 witness: after terminate() returned with an item in the queue, an
\* intHandler thread brought up by an earlier start() is running again and
\* finds the stop flag set.
C3_Witness ==
  /\ ctl = "terminated"
  /\ queries # <<>>
  /\ \E h \in Handlers : h.pc = "leave"

\* C4: when execute raised an error with description d, the message passed
\* to the item's callback has size Len(d) and its bytes are d.
C4_PayloadIsDescription ==
  \A h \in Handlers :
    ( AtCallback(h) /\ h.raised.kind = "std" ) =>
       /\ h.message.size = Len(h.raised.what)
       /\ h.message.data = h.raised.what

\* C5: the message passed to the callback has size 0 if and only if execute
\* succeeded.
C5_EmptyIffSuccess ==
  \A h \in Handlers :
    AtCallback(h) => ( h.message.size = 0 <=> h.raised.kind = "ok" )

\* C6: a failure of execute, of whatever kind, is caught in intHandler and
\* goes to the item's callback: the thread stays in its loop, still counted
\* in threads, and the process goes on.
C6_FailureIsCaught ==
  \A h \in Handlers :
    h.raised.kind \in { "std", "other" } =>
       /\ AtCallback(h)
       /\ h \in LiveWorkers
       /\ ~aborted

\* C7: when start() has returned, exactly maxThreads intHandler threads
\* exist and threads equals maxThreads, never more.
C7_StartReachesPoolSize ==
  Running => ( threads = maxThreads /\ Alive = maxThreads )

\* C8: whenever terminate() returns, threads is 0 and no intHandler thread
\* is left between its ++threads and its --threads.
C8_ZeroWhenTerminateReturns ==
  [][ TerminateReturns => ( threads' = 0 /\ LiveWorkers' = {} ) ]_vars

\* C8 witness: terminate() has returned after intHandler threads ran and
\* completed an item.
C8_Witness ==
  /\ ctl = "terminated"
  /\ threads = 0
  /\ \E i \in 1..queued : called[i] # <<>>
  /\ Alive = 0

\* C9: items leave the queue in the order they entered it: if b, queued
\* after a, has been taken by an intHandler thread, so has a.
C9_Fifo ==
  \A a, b \in 1..queued : ( a < b /\ Dequeued(b) ) => ( Dequeued(a) /\ ~InQueue(a) )

\* C9 witness: two intHandler threads hold the two items queued first, the
\* one queued first being already executed.
C9_Witness ==
  \E g, h \in Handlers :
    /\ g.query = 1 /\ g.pc = "callback"
    /\ h.query = 2 /\ h.pc = "execute"

\* C10: no item is processed twice: it is held by at most one intHandler
\* thread, is no longer in the queue once taken, is executed at most once
\* and its callback is invoked at most once.
C10_AtMostOnce ==
  /\ \A h \in Handlers :
       h.query # 0 =>
         /\ CopiesIn(h, handlers) = 1
         /\ \A g \in Handlers : g # h => g.query # h.query
         /\ ~InQueue(h.query)
         /\ called[h.query] = <<>>
  /\ \A k, l \in 1..Len(queries) : k # l => queries[k] # queries[l]
  /\ \A i \in Items :
       /\ executed[i] <= 1
       /\ Len(called[i]) <= executed[i]
       /\ executed[i] > 0 => ~InQueue(i)

\* C10 witness: the running pool, with at least two intHandler threads in
\* their loops, has completed the two items queued first.
C10_Witness ==
  /\ \A i \in 1..2 : executed[i] = 1 /\ Len(called[i]) = 1
  /\ queued = MaxItems
  /\ Running
  /\ BagCardinality([h \in LiveWorkers |-> handlers[h]]) >= 2

\* C11: items passed to queue() before start() is called stay in the queue;
\* once start() has brought the intHandler threads up, and as long as
\* terminate() is not called, every one of them is eventually taken,
\* executed and its callback invoked; they are taken in queue order.
C11_QueuedBeforeStartCompleted ==
  /\ []( ctl = "created" => \A i \in 1..queued : InQueue(i) )
  /\ []( \A a, b \in 1..queued : ( a < b /\ ~InQueue(b) ) => ~InQueue(a) )
  /\ \A i \in Items :
       []( ( ctl = "created" /\ InQueue(i) ) =>
             []( Running => <>( called[i] # <<>> \/ ctl = "termNotify" ) ) )

\* item i is held by an intHandler thread (its local Query)
Held(i) == \E h \in Handlers : h.query = i

\* C12: an item taken from the queue runs to completion: when terminate()
\* has set the stop flag while an intHandler thread holds the item, the
\* item's callback is still invoked; the thread gives the item up only by
\* invoking its callback, does not test the stop flag while it holds it, and
\* terminate() does not return before the callback of every item taken has
\* been invoked.
C12_RunsToCompletion ==
  /\ \A i \in Items :
       []( ( Held(i) /\ InTerminate /\ terminateBool ) => <>( called[i] # <<>> ) )
  /\ [][ /\ \A i \in Items :
              ( Held(i) /\ ~Held(i)' ) => Len(called'[i]) = Len(called[i]) + 1
         /\ \A h \in Handlers : h.pc \in { "loop", "check" } => h.query = 0
         /\ TerminateReturns =>
              \A i \in 1..queued : ~InQueue(i) => ( ~Held(i) /\ called[i] # <<>> )
       ]_vars

\* C13: a call of queue() only puts the new item at the tail of the queue
\* and wakes at most one thread waiting on wakeUp: the items already queued
\* keep their places, nothing is executed, no callback is invoked, the
\* process goes on, and the stop flag, threads and the mutexes are as before.
C13_QueueOnlyAppends ==
  [][ queued' # queued =>
        /\ queued' = queued + 1
        /\ Len(queries') = Len(queries) + 1
        /\ \A k \in 1..Len(queries) : queries'[k] = queries[k]
        /\ queries'[Len(queries')] = queued'
        /\ \/ handlers' = handlers /\ WakeUpWaiters = 0
           \/ /\ WakeUpWaiters' = WakeUpWaiters - 1
              /\ handlers' = Step(At("waiting"), At(Woken))
        /\ UNCHANGED << terminateBool, threads, executed, called, aborted, ctl,
                        threadsMutex, terminateMutex, queriesMutex >>
    ]_vars

\* C13 witness: queue() has been called on a running pool while an item was
\* in the queue, and has woken a waiting intHandler thread.
C13_Witness ==
  /\ Running
  /\ Len(queries) = 2
  /\ CopiesIn(At(Woken), handlers) > 0
  /\ executed = [i \in Items |-> 0]

\* the calling thread is inside start() and has not created a thread
StartNotSpawned == ctl \in { "startLock", "startLoop" }

\* C14: start() called while threads is (at least) maxThreads is a no-op:
\* from its call to its return threads does not fall below maxThreads,
\* start() creates no thread and waits for none, and its own steps leave
\* threads, the intHandler threads and the queue as they are.
C14_StartAtSizeIsNoOp ==
  [][ /\ ( ctl \in IdlePhases /\ ctl' = "startLock" ) =>
           UNCHANGED << threads, handlers, queries >>
      /\ ( StartNotSpawned /\ threads >= maxThreads ) =>
           /\ threads' >= maxThreads
           /\ ctl' \in { "startLock", "startLoop", "started" }
           /\ ctl' # ctl => UNCHANGED << threads, handlers, queries >>
    ]_vars

\* C14 witness: start() has been called again on a pool that is running at
\* its size and has completed an item.
C14_Witness ==
  /\ ctl = "startLock"
  /\ threads = maxThreads
  /\ Alive = maxThreads
  /\ \E i \in 1..queued : called[i] # <<>>

\* C15: for a result container driven by manufacture() and by trim() on a
\* non-empty container, iterating from begin() to end() yields the surviving
\* elements in the order they were appended and size() is their number:
\* manufacture() adds the new element at the end, trim() removes the element
\* appended last, and a trim() right after a manufacture() gives back the
\* contents that held before it, with size() one less.
C15_ContainerRoundTrip ==
  [][ /\ size(data) = Len(Walk(data, begin(data)))
      /\ made' # made =>
           /\ Walk(data', begin(data')) = Walk(data, begin(data)) \o << made' >>
           /\ size(data') = size(data) + 1
           /\ size(EraseLast(data')) = size(data') - 1
           /\ Walk(EraseLast(data'), 1) = Walk(data, begin(data))
      /\ ( made' = made /\ data' # data ) =>
           /\ size(data') = size(data) - 1
           /\ Walk(data', begin(data')) =
                SubSeq(Walk(data, begin(data)), 1, size(data) - 1)
    ]_vars

\* C15 witness: two elements were appended, the second one trimmed and a
\* third one appended.
C15_Witness == made = 3 /\ Walk(data, begin(data)) = << 1, 3 >>

\* C16: a default-constructed Nullable reports null (nullness is true) and
\* a Nullable constructed from a value reports not null.
C16_DefaultIsNull ==
  /\ nullable.ctor = "default" => nullable.nullness = TRUE
  /\ nullable.ctor = "value" => nullable.nullness = FALSE

\* C17: an item queued while the pool is running is not stranded: as long
\* as terminate() is not called, an intHandler thread eventually takes it
\* and its callback is invoked, wherever the threads are (waiting on wakeUp,
\* or between their test of the queue's size and their wait) when queue()
\* pushes and notifies.
C17_NeverStranded ==
  \A i \in Items :
    []( ( Running /\ InQueue(i) ) =>
          <>( called[i] # <<>> \/ ctl = "termNotify" ) )

\* the number of intHandler threads that hold the queue's mutex (between
\* queriesLock.lock() and the wait or the unlock that follows)
QueueLockHolders == CopiesIn(At("size"), handlers)

\* C18: an intHandler thread that is executing a statement or invoking a
\* callback does not hold the queue's mutex: the mutex is held only by a
\* thread between queriesLock.lock() and its wait or its unlock after the
\* pop, so it is free whenever no thread is there.
C18_ExecuteWithoutQueueLock ==
  /\ queriesMutex \in { Free, Handler }
  /\ QueueLockHolders <= 1
  /\ queriesMutex = Handler <=> QueueLockHolders = 1
  /\ \A h \in Handlers :
       h.pc \in { "execute", "callback" } =>
         ( queriesMutex = Free \/ QueueLockHolders = 1 )

\* C18 witness: while one intHandler thread executes a statement, another
\* one holds the queue's mutex and finds an item in the queue.
C18_Witness ==
  /\ \E h \in Handlers : h.pc = "execute"
  /\ QueueLockHolders = 1
  /\ queriesMutex = Handler
  /\ queries # <<>>

\* the number of intHandler threads at one of the positions ps
NumberAt(ps) ==
  BagCardinality([h \in { g \in Handlers : g.pc \in ps } |-> handlers[h]])

\* C19: every access to shared state is made by a thread that holds the
\* state's own mutex.  Reads: start() and terminate() test threads holding
\* threadsMutex, intHandler tests terminateBool holding terminateMutex and
\* the queue's size holding the queue's mutex, one thread at a time.
\* Writes: threads, terminateBool and the queue change only in a step whose
\* thread has the mutex (locked before, or free and locked for that one
\* statement).
C19_AccessUnderOwnLock ==
  [][ /\ ctl \in { "startLoop", "termLoop" } <=> threadsMutex = Main
      /\ NumberAt({ "check", "leave", "notifyDown" }) =
           ( IF terminateMutex = Handler THEN 1 ELSE 0 )
      /\ NumberAt({ "size" }) = ( IF queriesMutex = Handler THEN 1 ELSE 0 )
      /\ threads' # threads => ( threadsMutex = Free /\ threadsMutex' = Free )
      /\ ( terminateBool' # terminateBool
             \/ ( ctl' # ctl /\ ctl' \in { "startLock", "termNotify" } ) )
           => ( terminateMutex = Free /\ terminateMutex' = Free )
      /\ queries' # queries =>
           \/ queriesMutex = Free /\ queriesMutex' = Free
           \/ /\ queriesMutex = Handler
              /\ NumberAt({ "size" }) = 1
              /\ queriesMutex' = Free
    ]_vars

\* C19 witness: the three mutexes are held at once, threadsMutex by the
\* thread in start() and the other two by intHandler threads that test the
\* stop flag and the queue's size.
C19_Witness ==
  /\ ctl = "startLoop" /\ threadsMutex = Main
  /\ terminateMutex = Handler /\ NumberAt({ "check" }) = 1
  /\ queriesMutex = Handler /\ NumberAt({ "size" }) = 1

\* C20: from the return of terminate() until start() is called again the
\* pool is quiescent: no intHandler thread holds an item or is at execute or
\* at the callback, nothing is executed, no callback is invoked and no item
\* leaves the queue, whether or not queue() is called meanwhile.
C20_QuiescentAfterTerminate ==
  [][ ctl = "terminated" =>
        /\ \A h \in Handlers :
             h.query = 0 /\ h.pc \notin { "size", "execute", "callback" }
        /\ executed' = executed
        /\ called' = called
        /\ Len(queries') >= Len(queries)
        /\ \A k \in 1..Len(queries) : queries'[k] = queries[k]
    ]_vars

\* C20 witness: after terminate() returned, queue() has been called (no item
\* was queued before) and an intHandler thread created in excess by start()
\* is running.
C20_Witness ==
  /\ ctl = "terminated"
  /\ queued = 1 /\ queries = << 1 >>
  /\ NumberAt({ "loop", "check" }) = 1

\* the mutexes an intHandler thread at position p holds
HandlerHolds(p) ==
  CASE p \in { "check", "leave", "notifyDown" } -> { "terminateMutex" }
    [] p = "size"                               -> { "queriesMutex" }
    [] OTHER                                    -> {}

\* the mutex an intHandler thread at position p is about to lock
HandlerWants(p) ==
  CASE p \in { "spawned", "leave" }     -> { "threadsMutex" }
    [] p = "loop"                       -> { "terminateMutex" }
    [] p \in { "lockQueries", "relock" } -> { "queriesMutex" }
    [] OTHER                            -> {}

\* the same for the thread in start() or terminate(); outside them it may
\* be about to call start() or terminate(), which lock terminateMutex first
MainHolds(c) == IF c \in { "startLoop", "termLoop" } THEN { "threadsMutex" } ELSE {}
MainWants(c) ==
  CASE c \in { "startLock", "startReacq", "termLock", "termReacq" } ->
         { "threadsMutex" }
    [] c \in IdlePhases -> { "terminateMutex" }
    [] OTHER -> {}

\* the owner of each mutex
Owner(m) ==
  CASE m = "threadsMutex"   -> threadsMutex
    [] m = "terminateMutex" -> terminateMutex
    [] m = "queriesMutex"   -> queriesMutex

\* << m, n >>: some thread holds m and is blocked on n, which is locked
HoldAndWait ==
  { << m, n >> \in { "threadsMutex", "terminateMutex", "queriesMutex" }
                    \X { "threadsMutex", "terminateMutex", "queriesMutex" } :
      /\ Owner(n) # Free
      /\ \/ m \in MainHolds(ctl) /\ n \in MainWants(ctl)
         \/ \E h \in Handlers : m \in HandlerHolds(h.pc) /\ n \in HandlerWants(h.pc) }

\* the pairs joined by a chain of HoldAndWait (three mutexes: chains of at
\* most three links)
Chain ==
  LET R == HoldAndWait
      Join(A, B) == { << p[1], q[2] >> : << p, q >> \in { x \in A \X B : x[1][2] = x[2][1] } }
  IN  R \cup Join(R, R) \cup Join(Join(R, R), R)

\* C21: the three mutexes give no lock-order deadlock: what the mutex
\* variables say agrees with where the threads are, no thread is blocked on
\* terminateMutex or on the queue's mutex while it holds threadsMutex, no
\* chain of threads each blocked on a mutex held by the next closes into a
\* cycle, the holder of a locked mutex can take its next step as soon as
\* threadsMutex is free (while the process runs), and terminateMutex is
\* locked only while an intHandler thread that has not ended holds it, so a
\* thread that ends leaves it unlocked.
C21_NoLockOrderDeadlock ==
  /\ threadsMutex = Main <=> MainHolds(ctl) # {}
  /\ NumberAt({ p \in Positions : "terminateMutex" \in HandlerHolds(p) }) =
       ( IF terminateMutex = Handler THEN 1 ELSE 0 )
  /\ NumberAt({ p \in Positions : "queriesMutex" \in HandlerHolds(p) }) =
       ( IF queriesMutex = Handler THEN 1 ELSE 0 )
  /\ \A e \in HoldAndWait : e[1] # "threadsMutex"
  /\ \A e \in Chain : e[1] # e[2]
  /\ ( threadsMutex = Main /\ ~aborted ) => ENABLED ( StartStep \/ TerminateStep )
  /\ ( queriesMutex = Handler /\ ~aborted ) => ENABLED HandlerAt("size")
  /\ ( terminateMutex = Handler /\ ~aborted /\ threadsMutex = Free ) =>
       ENABLED ( HandlerAt("check") \/ HandlerAt("leave") \/ HandlerAt("notifyDown") )

\* C21 witness: an intHandler thread that saw the stop flag holds
\* terminateMutex and is blocked on threadsMutex, which the thread in
\* terminate() holds, while another intHandler thread is blocked on
\* terminateMutex.
C21_Witness ==
  /\ ctl = "termLoop"
  /\ << "terminateMutex", "threadsMutex" >> \in HoldAndWait
  /\ NumberAt({ "leave" }) = 1
  /\ NumberAt({ "loop" }) >= 1

====
